---- MODULE Spec2Model ----
(***************************************************************************)
(* Port scanning engine of core/src/network/port_scanner.rs.               *)
(*                                                                         *)
(* Spec      : PortScanner::new, the builder methods and scan(), with the  *)
(*             rayon worker threads interleaved probe by probe.            *)
(* SpecProbe : the per-port methods scan_tcp_port, scan_udp_port and       *)
(*             grab_banner, one I/O step at a time.                        *)
(* SpecInfo, SpecCatalog : get_scan_info and detect_service.               *)
(* SpecTwice, SpecTimed, SpecFair, SpecAll : scan() called twice, with     *)
(*             the wall clock, under fairness, and with every method.      *)
(*                                                                         *)
(* WiFi module of core/src/wifi/scanner.rs.                                *)
(*                                                                         *)
(* SpecSecurity : SecurityType::from_str and security_level.               *)
(* SpecParser   : parse_iw_scan_results, line by line.                     *)
(***************************************************************************)
EXTENDS Integers, Sequences, FiniteSets, TLC

VARIABLES
    scanner,     \* the PortScanner struct: target, ports, timeout_duration, max_parallel
    listeners,   \* environment: the ports of the target that accept a TCP connection
    numThreads,  \* environment: size of the rayon thread pool
    pc,          \* position of the caller
    chunks,      \* scan(): per chunk of ports, its progress on a worker thread
    completed,   \* scan(): chunk indices in the order the chunks finished
    probe,       \* per-port methods: the I/O performed so far by the running call
    ret,         \* the value the call returned
    prev,        \* the value an earlier scan() of the same scanner returned
    now,         \* wall clock of a scan, in units of timeout_duration
    overflowChecks, \* environment: the build panics on integer overflow (debug)
                    \* or wraps (release)
    wifi         \* WiFi module: the arguments of the running call and the
                 \* locals of parse_iw_scan_results

vars == <<scanner, listeners, numThreads, pc, chunks, completed, probe, ret,
          prev, now, overflowChecks, wifi>>

(***************************************************************************)
(* Bounds of the model                                                     *)
(***************************************************************************)
MaxPortSpan == 3     \* ports 22 .. 22 + MaxPortSpan are scanned
MaxThreads  == 2     \* rayon pools of 1 .. MaxThreads threads
MaxParallel == 2     \* with_parallelism(0 .. MaxParallel)
MaxRead     == 2     \* a banner read delivers at most MaxRead bytes
MaxWords    == 3     \* a security description has at most MaxWords words
MaxLines    == 3     \* a scan dump has at most MaxLines lines
MaxDigits   == 4     \* a number in a scan dump has at most MaxDigits digits

(***************************************************************************)
(* Program constants                                                       *)
(***************************************************************************)
DefaultTimeoutMs   == 1000
DefaultMaxParallel == 100
BannerBufferSize   == 1024

MaxPort            == 65535     \* u16::MAX
U16Modulus         == 65536     \* 2^16

ScanPorts == 22 .. (22 + MaxPortSpan)
Targets   == {"127.0.0.1"}
Durations == {0, DefaultTimeoutMs}      \* Duration::ZERO and a positive timeout

(***************************************************************************)
(* Data types                                                              *)
(***************************************************************************)
\* Option<T>: None is the empty sequence, Some(x) the one-element sequence.
None    == <<>>
Some(x) == <<x>>

\* anyhow::Result<T>
Ok(v)  == [kind |-> "Ok", value |-> v]
Err(e) == [kind |-> "Err", value |-> e]
NoRet  == [kind |-> "none", value |-> "none"]

PortState == {"Open", "Closed", "Filtered", "OpenFiltered"}
Protocol  == {"TCP", "UDP"}

PortResult(port, state, service, protocol) ==
    [port |-> port, state |-> state, service |-> service,
     protocol |-> protocol, banner |-> None]

(***************************************************************************)
(* PortScanner::new and the builder methods                                *)
(***************************************************************************)
new(target, start_port, end_port) ==
    [target |-> target,
     ports |-> [start |-> start_port, end |-> end_port],
     timeout_duration |-> DefaultTimeoutMs,
     max_parallel |-> DefaultMaxParallel]

\* Variant: the builder starts again from the default concurrency.
with_timeout_value_resetting(self, duration) ==
    [self EXCEPT !.timeout_duration = duration,
                 !.max_parallel = DefaultMaxParallel]

with_timeout_value(self, duration) ==
    [self EXCEPT !.timeout_duration = duration]

with_parallelism_value(self, max_parallel) ==
    [self EXCEPT !.max_parallel = max_parallel]

(***************************************************************************)
(* Service catalog                                                         *)
(***************************************************************************)
\* Variant: the arm for 8443 is missing.
detect_service_incomplete(port) ==
    CASE port = 20    -> Some("FTP-DATA")
      [] port = 21    -> Some("FTP")
      [] port = 22    -> Some("SSH")
      [] port = 23    -> Some("Telnet")
      [] port = 25    -> Some("SMTP")
      [] port = 53    -> Some("DNS")
      [] port = 80    -> Some("HTTP")
      [] port = 110   -> Some("POP3")
      [] port = 143   -> Some("IMAP")
      [] port = 443   -> Some("HTTPS")
      [] port = 445   -> Some("SMB")
      [] port = 3306  -> Some("MySQL")
      [] port = 3389  -> Some("RDP")
      [] port = 5432  -> Some("PostgreSQL")
      [] port = 5900  -> Some("VNC")
      [] port = 6379  -> Some("Redis")
      [] port = 8080  -> Some("HTTP-Proxy")
      [] port = 27017 -> Some("MongoDB")
      [] OTHER        -> None

detect_service(port) ==
    CASE port = 20    -> Some("FTP-DATA")
      [] port = 21    -> Some("FTP")
      [] port = 22    -> Some("SSH")
      [] port = 23    -> Some("Telnet")
      [] port = 25    -> Some("SMTP")
      [] port = 53    -> Some("DNS")
      [] port = 80    -> Some("HTTP")
      [] port = 110   -> Some("POP3")
      [] port = 143   -> Some("IMAP")
      [] port = 443   -> Some("HTTPS")
      [] port = 445   -> Some("SMB")
      [] port = 3306  -> Some("MySQL")
      [] port = 3389  -> Some("RDP")
      [] port = 5432  -> Some("PostgreSQL")
      [] port = 5900  -> Some("VNC")
      [] port = 6379  -> Some("Redis")
      [] port = 8080  -> Some("HTTP-Proxy")
      [] port = 8443  -> Some("HTTPS-Alt")
      [] port = 27017 -> Some("MongoDB")
      [] OTHER        -> None

(***************************************************************************)
(* Scan cost estimator                                                     *)
(***************************************************************************)
Panic(msg) == [kind |-> "panic", value |-> msg]

\* u16 arithmetic: a result outside 0 ..= u16::MAX overflows; a build with
\* overflow checks panics there, one without wraps modulo 2^16.
OverflowsU16(x) == x < 0 \/ x > MaxPort
WrapU16(x)      == x % U16Modulus

\* format!("{}", n) of an unsigned integer: its decimal digits.
DigitChars == <<"0", "1", "2", "3", "4", "5", "6", "7", "8", "9">>

RECURSIVE Digits(_)
Digits(n) ==
    IF n < 10 THEN <<DigitChars[n + 1]>>
    ELSE Digits(n \div 10) \o <<DigitChars[(n % 10) + 1]>>

\* format!("{}-{}", self.ports.start, self.ports.end)
FormatRange(start, end) == Digits(start) \o <<"-">> \o Digits(end)

\* get_scan_info.  (end - start + 1) is computed in u16 before the cast to
\* usize; the division by max_parallel panics on zero in every build.
get_scan_info(self, checks) ==
    LET diff  == self.ports.end - self.ports.start
        sum   == WrapU16(diff) + 1
        total == WrapU16(sum)
    IN  IF checks /\ OverflowsU16(diff)
        THEN Panic("attempt to subtract with overflow")
        ELSE IF checks /\ OverflowsU16(sum)
        THEN Panic("attempt to add with overflow")
        ELSE IF self.max_parallel = 0
        THEN Panic("attempt to divide by zero")
        ELSE LET millis == (total * self.timeout_duration) \div self.max_parallel
             IN  Ok([target       |-> self.target,
                     port_range   |-> FormatRange(self.ports.start, self.ports.end),
                     total_ports  |-> total,
                     estimated_duration_seconds |-> millis \div 1000,
                     max_parallel |-> self.max_parallel])

(***************************************************************************)
(* TCP probe                                                               *)
(***************************************************************************)
\* What TcpStream::connect_timeout can report for a port of the target.  A
\* zero Duration is an error of the call (InvalidInput).
ConnectFailures == {"refused", "timed_out", "unreachable"}

ConnectOutcomes(port) ==
    IF scanner.timeout_duration = 0 THEN {"invalid_input"}
    ELSE IF port \in listeners THEN {"connected"}
    ELSE ConnectFailures

\* Variant: a failed connect is propagated as an error instead of a result.
scan_tcp_port_propagating(port, connect) ==
    IF connect = "connected"
    THEN Ok(PortResult(port, "Open", detect_service(port), "TCP"))
    ELSE Err("connect failed")

\* Variant: a timed out connect is classified Filtered, and the service name
\* is looked up whatever the outcome.
scan_tcp_port_filtering(port, connect) ==
    Ok(PortResult(port,
                  CASE connect = "connected" -> "Open"
                    [] connect = "timed_out" -> "Filtered"
                    [] OTHER                 -> "Closed",
                  detect_service(port), "TCP"))

\* scan_tcp_port, given the outcome of its connect_timeout call.
scan_tcp_port(port, connect) ==
    IF connect = "connected"
    THEN Ok(PortResult(port, "Open", detect_service(port), "TCP"))
    ELSE Ok(PortResult(port, "Closed", None, "TCP"))

(***************************************************************************)
(* UDP probe                                                               *)
(***************************************************************************)
BindOutcomes == {"ok", "err"}
SendOutcomes == {"ok", "err"}
\* timeout(d, recv_from): Ok(Ok(_)), Ok(Err(_)) or Err(Elapsed)
RecvOutcomes == {"reply", "recv_err", "elapsed"}

\* Each step yields where the call goes next and, when it ends, its value.
Continue(next) == [next |-> next, ret |-> NoRet]
Return(r)      == [next |-> "returned", ret |-> r]

\* Variant: a failed bind is not checked and the probe goes on to send.
udp_after_bind_unchecked(o) == Continue("udp_send")

\* UdpSocket::bind("0.0.0.0:0").await.context("Failed to bind UDP socket")?
udp_after_bind(o) ==
    IF o = "ok" THEN Continue("udp_send")
    ELSE Return(Err("Failed to bind UDP socket"))

\* socket.send_to(&[], target_addr).await?
udp_after_send(o) ==
    IF o = "ok" THEN Continue("udp_recv")
    ELSE Return(Err("send_to failed"))

\* Variant: silence is taken for a closed port.
udp_state_silence_closed(o) ==
    CASE o = "reply"    -> "Open"
      [] o = "recv_err" -> "Closed"
      [] o = "elapsed"  -> "Closed"

\* match result { Ok(Ok(_)) => Open, Ok(Err(_)) => Closed, Err(_) => OpenFiltered }
udp_state(o) ==
    CASE o = "reply"    -> "Open"
      [] o = "recv_err" -> "Closed"
      [] o = "elapsed"  -> "OpenFiltered"

udp_after_recv(port, o) ==
    Return(Ok(PortResult(port, udp_state(o), detect_service(port), "UDP")))

(***************************************************************************)
(* Banner reader                                                           *)
(***************************************************************************)
\* timeout(d, TcpStream::connect(addr)): the connect is given no Duration of
\* its own; with a zero timeout it either completes on the first poll or the
\* timer wins.
BannerConnectOutcomes(port) ==
    IF port \in listeners
    THEN IF scanner.timeout_duration = 0 THEN {"connected", "elapsed"}
         ELSE {"connected"}
    ELSE {"refused", "unreachable", "elapsed"}

banner_after_connect(o) ==
    IF o = "connected" THEN Continue("banner_set_timeout")
    ELSE Return(Ok(None))

\* TcpStream::set_read_timeout(Some(d)) is an Err for the zero Duration.
SetReadTimeoutOutcomes(d) == IF d = 0 THEN {"invalid_input"} ELSE {"ok"}

\* stream.set_read_timeout(Some(self.timeout_duration))?
banner_after_set_timeout(o) ==
    IF o = "ok" THEN Continue("banner_read")
    ELSE Return(Err("set_read_timeout failed"))

\* Bytes a peer may send: an ASCII letter, and the two bytes of U+00E9, each
\* of which alone is an invalid sequence.
BannerBytes == {65, 195, 169}
ReplacementChar == 65533

ReadLengths ==
    1 .. (IF MaxRead <= BannerBufferSize THEN MaxRead ELSE BannerBufferSize)

\* stream.read(&mut buffer): Ok(n) with the n bytes, Ok(0), or an error
\* (a read timeout included).
ReadOutcomes ==
    {[kind |-> "eof", bytes |-> <<>>], [kind |-> "err", bytes |-> <<>>]}
    \cup {[kind |-> "data", bytes |-> b] :
            b \in UNION {[1 .. n -> BannerBytes] : n \in ReadLengths}}

IsContinuation(b) == b >= 128 /\ b <= 191

\* String::from_utf8_lossy: code points of the valid sequences (one and two
\* byte forms), U+FFFD for every byte that starts no valid sequence.
RECURSIVE from_utf8_lossy(_)
from_utf8_lossy(bytes) ==
    IF bytes = <<>> THEN <<>>
    ELSE LET b == Head(bytes) IN
         IF b < 128 THEN <<b>> \o from_utf8_lossy(Tail(bytes))
         ELSE IF /\ b >= 194 /\ b <= 223
                 /\ Len(bytes) >= 2 /\ IsContinuation(bytes[2])
              THEN <<(b - 192) * 64 + (bytes[2] - 128)>>
                   \o from_utf8_lossy(Tail(Tail(bytes)))
              ELSE <<ReplacementChar>> \o from_utf8_lossy(Tail(bytes))

\* Variant: the guard n > 0 is missing and an empty read gives an empty banner.
banner_after_read_accepting_empty(r) ==
    IF r.kind \in {"data", "eof"}
    THEN Return(Ok(Some(from_utf8_lossy(r.bytes))))
    ELSE Return(Ok(None))

\* match stream.read(..) { Ok(n) if n > 0 => Ok(Some(banner)), _ => Ok(None) }
banner_after_read(r) ==
    IF r.kind = "data" /\ Len(r.bytes) > 0
    THEN Return(Ok(Some(from_utf8_lossy(r.bytes))))
    ELSE Return(Ok(None))

(***************************************************************************)
(* scan(): the port list, its chunks and the gathering of the results      *)
(***************************************************************************)
\* (self.ports.start..=self.ports.end).collect(): empty when start > end.
PortList(self) ==
    [i \in 1 .. (IF self.ports.start <= self.ports.end
                 THEN self.ports.end - self.ports.start + 1 ELSE 0)
        |-> self.ports.start + i - 1]

\* Variant: the division rounds down and the last, shorter chunk is lost.
NumChunksFloor(n, size) == n \div size

NumChunks(n, size) == (n + size - 1) \div size

\* Variant: every chunk but the first starts one port early, on the last
\* port of the chunk before it.
ChunkPortsOverlapping(ports, size, c) ==
    SubSeq(ports, IF c = 1 THEN 1 ELSE (c - 1) * size,
           IF c * size <= Len(ports) THEN c * size ELSE Len(ports))

\* par_iter().chunks(size): consecutive slices of `size` ports, the last one
\* shorter.  Each chunk is handed to one worker thread.
ChunkPorts(ports, size, c) ==
    SubSeq(ports, (c - 1) * size + 1,
           IF c * size <= Len(ports) THEN c * size ELSE Len(ports))

InitialChunks(ports, size) ==
    [c \in 1 .. NumChunks(Len(ports), size) |->
        [ports   |-> ChunkPorts(ports, size, c),
         status  |-> "pending",     \* pending | running | done
         idx     |-> 1,             \* next port of the chunk to probe
         probing |-> FALSE,         \* a connect of this chunk is in progress
         since   |-> 0,             \* clock value at which that connect began
         tried   |-> <<>>,          \* ports on which a connect was begun
         out     |-> <<>>]]         \* the chunk's collected Vec<PortResult>

\* filter_map(|port| match scan_tcp_port(port) { Ok(r) => Some(r), Err(_) => None })
filter_map_push(out, r) ==
    IF r.kind = "Ok" THEN Append(out, r.value) ELSE out

RECURSIVE Concat(_, _)
Concat(outs, order) ==
    IF order = <<>> THEN <<>>
    ELSE outs[Head(order)] \o Concat(outs, Tail(order))

\* Variant: the vectors are appended as the chunks finish.
CollectCompletionOrder(cs, done) ==
    Concat([c \in DOMAIN cs |-> cs[c].out], done)

\* flat_map(..).collect(): rayon gathers the chunks' vectors in the order of
\* the source iterator, whatever the order in which the chunks finished.
Collect(cs, done) ==
    Concat([c \in DOMAIN cs |-> cs[c].out], [c \in DOMAIN cs |-> c])

Running == {c \in DOMAIN chunks : chunks[c].status = "running"}
Pending == {c \in DOMAIN chunks : chunks[c].status = "pending"}
InFlight == {c \in DOMAIN chunks : chunks[c].probing}

(***************************************************************************)
(* Initial states: a freshly constructed scanner and its environment       *)
(***************************************************************************)
NoProbe == [port |-> 0, io |-> <<>>]

\* No call of the WiFi module is in progress.
NoWifi == [s |-> <<>>, self |-> "Unknown", output |-> <<>>, lines |-> <<>>, pos |-> 0,
           networks |-> <<>>, current_network |-> None]

Init ==
    /\ \E t \in Targets, s \in ScanPorts, e \in ScanPorts : scanner = new(t, s, e)
    /\ listeners \in SUBSET ScanPorts
    /\ numThreads \in 1 .. MaxThreads
    /\ pc = "built"
    /\ chunks = <<>>
    /\ completed = <<>>
    /\ probe = NoProbe
    /\ ret = NoRet
    /\ prev = NoRet
    /\ now = 0
    /\ overflowChecks = FALSE    \* read by get_scan_info only
    /\ wifi = NoWifi

(***************************************************************************)
(* Builder                                                                 *)
(***************************************************************************)
with_timeout ==
    /\ pc = "built"
    /\ \E d \in Durations : scanner' = with_timeout_value(scanner, d)
    /\ UNCHANGED <<listeners, numThreads, pc, chunks, completed, probe, ret, prev, now, overflowChecks, wifi>>

with_parallelism ==
    /\ pc = "built"
    /\ \E n \in 0 .. MaxParallel : scanner' = with_parallelism_value(scanner, n)
    /\ UNCHANGED <<listeners, numThreads, pc, chunks, completed, probe, ret, prev, now, overflowChecks, wifi>>

(***************************************************************************)
(* scan()                                                                  *)
(***************************************************************************)
\* scan() is entered: the port list is built and cut into chunks.  rayon's
\* chunks() asserts chunk_size != 0 and panics otherwise.
ScanCall ==
    /\ pc = "built"
    /\ IF scanner.max_parallel = 0
       THEN /\ pc' = "panicked"
            /\ UNCHANGED chunks
       ELSE /\ pc' = "scan"
            /\ chunks' = InitialChunks(PortList(scanner), scanner.max_parallel)
    /\ UNCHANGED <<scanner, listeners, numThreads, completed, probe, ret, prev, now, overflowChecks, wifi>>

\* An idle pool thread takes a chunk that no thread has started.  The calling
\* thread descends to the first chunk; with a single thread the chunks are
\* taken in order, with more threads work stealing may hand over any other.
ScanTakeChunk(c) ==
    /\ pc = "scan"
    /\ c \in Pending
    /\ Cardinality(Running) < numThreads
    /\ \/ \A d \in Pending : c <= d
       \/ numThreads > 1 /\ 1 \notin Pending
    /\ chunks' = [chunks EXCEPT ![c].status = "running"]
    /\ UNCHANGED <<scanner, listeners, numThreads, pc, completed, probe, ret, prev, now, overflowChecks, wifi>>

\* The chunk's thread calls scan_tcp_port for the chunk's next port: the
\* connect is in progress and blocks the thread.
ScanProbeStart(c) ==
    /\ pc = "scan"
    /\ c \in Running
    /\ ~chunks[c].probing
    /\ chunks' = [chunks EXCEPT
                    ![c].probing = TRUE,
                    ![c].since   = now,
                    ![c].tried   = Append(@, chunks[c].ports[chunks[c].idx])]
    /\ UNCHANGED <<scanner, listeners, numThreads, pc, completed, probe, ret, prev, now, overflowChecks, wifi>>

\* The connect returns; the result passes through filter_map into the chunk's
\* vector.  After its last port the chunk is finished.
ScanProbeFinish(c) ==
    /\ pc = "scan"
    /\ c \in Running
    /\ chunks[c].probing
    /\ LET ch   == chunks[c]
           port == ch.ports[ch.idx]
           last == ch.idx = Len(ch.ports)
       IN \E o \in ConnectOutcomes(port) :
            /\ chunks' = [chunks EXCEPT
                            ![c].out     = filter_map_push(ch.out, scan_tcp_port(port, o)),
                            ![c].idx     = ch.idx + 1,
                            ![c].probing = FALSE,
                            ![c].status  = IF last THEN "done" ELSE "running"]
            /\ completed' = IF last THEN Append(completed, c) ELSE completed
    /\ UNCHANGED <<scanner, listeners, numThreads, pc, probe, ret, prev, now, overflowChecks, wifi>>

\* Every chunk has finished: collect() gathers the vectors and scan returns.
ScanReturn ==
    /\ pc = "scan"
    /\ \A c \in DOMAIN chunks : chunks[c].status = "done"
    /\ ret' = Ok(Collect(chunks, completed))
    /\ pc' = "returned"
    /\ UNCHANGED <<scanner, listeners, numThreads, chunks, completed, probe, prev, now, overflowChecks, wifi>>

\* The same scanner is scanned once more; the first result is kept aside.
ScanAgain ==
    /\ pc = "returned"
    /\ probe = NoProbe
    /\ ret.kind = "Ok"
    /\ prev.kind = "none"
    /\ prev' = ret
    /\ ret' = NoRet
    /\ chunks' = InitialChunks(PortList(scanner), scanner.max_parallel)
    /\ completed' = <<>>
    /\ pc' = "scan"
    /\ UNCHANGED <<scanner, listeners, numThreads, probe, now, overflowChecks, wifi>>

\* No thread can take a step without time passing: every running chunk is
\* inside a connect, and no idle thread has a chunk to take.
ThreadsBlocked ==
    /\ \A c \in Running : chunks[c].probing
    /\ Pending = {} \/ Cardinality(Running) >= numThreads

\* One timeout_duration of wall clock passes while the threads are blocked in
\* connect_timeout.  A connect returns at the latest when its timeout has
\* elapsed, so time passes only while no connect in flight has used it up.
Tick ==
    /\ pc = "scan"
    /\ scanner.timeout_duration > 0
    /\ InFlight # {}
    /\ ThreadsBlocked
    /\ \A c \in InFlight : chunks[c].since = now
    /\ now' = now + 1
    /\ UNCHANGED <<scanner, listeners, numThreads, pc, chunks, completed, probe,
                   ret, prev, overflowChecks, wifi>>

Next ==
    \/ with_timeout
    \/ with_parallelism
    \/ ScanCall
    \/ \E c \in DOMAIN chunks : ScanTakeChunk(c)
    \/ \E c \in DOMAIN chunks : ScanProbeStart(c)
    \/ \E c \in DOMAIN chunks : ScanProbeFinish(c)
    \/ ScanReturn

Spec == Init /\ [][Next]_vars

\* scan() with the wall clock.
NextTimed == Next \/ Tick
SpecTimed == Init /\ [][NextTimed]_vars

\* scan() called twice on the same scanner.
NextTwice == Next \/ ScanAgain
SpecTwice == Init /\ [][NextTwice]_vars

\* The pool threads keep running and every connect returns: a step of the
\* scan that stays possible is eventually taken.
ScanStep ==
    \/ \E c \in DOMAIN chunks : ScanTakeChunk(c)
    \/ \E c \in DOMAIN chunks : ScanProbeStart(c)
    \/ \E c \in DOMAIN chunks : ScanProbeFinish(c)
    \/ ScanReturn
SpecFair == Init /\ [][Next]_vars /\ WF_vars(ScanStep)

(***************************************************************************)
(* The per-port methods, one I/O step at a time                            *)
(***************************************************************************)
IoStep(op, o) == [op |-> op, out |-> o]

ProbeStep(op, o, after) ==
    /\ probe' = [probe EXCEPT !.io = Append(@, IoStep(op, o))]
    /\ pc' = after.next
    /\ ret' = after.ret
    /\ UNCHANGED <<scanner, listeners, numThreads, chunks, completed, prev, now, overflowChecks, wifi>>

ProbeCall(port, first) ==
    /\ pc = "built"
    /\ probe' = [port |-> port, io |-> <<>>]
    /\ pc' = first
    /\ UNCHANGED <<scanner, listeners, numThreads, chunks, completed, ret, prev, now, overflowChecks, wifi>>

TcpCall == \E port \in ScanPorts : ProbeCall(port, "tcp_connect")

TcpConnect ==
    /\ pc = "tcp_connect"
    /\ \E o \in ConnectOutcomes(probe.port) :
         ProbeStep("connect_timeout", o, Return(scan_tcp_port(probe.port, o)))

UdpCall == \E port \in ScanPorts : ProbeCall(port, "udp_bind")

UdpBind ==
    /\ pc = "udp_bind"
    /\ \E o \in BindOutcomes : ProbeStep("bind", o, udp_after_bind(o))

UdpSend ==
    /\ pc = "udp_send"
    /\ \E o \in SendOutcomes : ProbeStep("send_to", o, udp_after_send(o))

UdpRecv ==
    /\ pc = "udp_recv"
    /\ \E o \in RecvOutcomes : ProbeStep("recv_from", o, udp_after_recv(probe.port, o))

BannerCall == \E port \in ScanPorts : ProbeCall(port, "banner_connect")

BannerConnect ==
    /\ pc = "banner_connect"
    /\ \E o \in BannerConnectOutcomes(probe.port) :
         ProbeStep("connect", o, banner_after_connect(o))

BannerSetTimeout ==
    /\ pc = "banner_set_timeout"
    /\ \E o \in SetReadTimeoutOutcomes(scanner.timeout_duration) :
         ProbeStep("set_read_timeout", o, banner_after_set_timeout(o))

BannerRead ==
    /\ pc = "banner_read"
    /\ \E r \in ReadOutcomes : ProbeStep("read", r, banner_after_read(r))

InitProbe ==
    /\ \E t \in Targets, s \in ScanPorts, e \in ScanPorts : scanner = new(t, s, e)
    /\ listeners \in SUBSET ScanPorts
    /\ numThreads = 1
    /\ pc = "built"
    /\ chunks = <<>>
    /\ completed = <<>>
    /\ probe = NoProbe
    /\ ret = NoRet
    /\ prev = NoRet
    /\ now = 0
    /\ overflowChecks = FALSE    \* read by get_scan_info only
    /\ wifi = NoWifi

NextProbe ==
    \/ with_timeout
    \/ TcpCall
    \/ TcpConnect
    \/ UdpCall
    \/ UdpBind
    \/ UdpSend
    \/ UdpRecv
    \/ BannerCall
    \/ BannerConnect
    \/ BannerSetTimeout
    \/ BannerRead

SpecProbe == InitProbe /\ [][NextProbe]_vars

(***************************************************************************)
(* get_scan_info and detect_service, applied to drawn inputs               *)
(***************************************************************************)
InfoPorts     == {0, 1, 2, 1000, MaxPort - 1, MaxPort}
InfoDurations == {0, 1, 1500, 30000}
InfoParallels == {0, 1, 3, 7}

info_with_timeout ==
    /\ pc = "built"
    /\ \E d \in InfoDurations : scanner' = with_timeout_value(scanner, d)
    /\ UNCHANGED <<listeners, numThreads, pc, chunks, completed, probe, ret,
                   prev, now, overflowChecks, wifi>>

info_with_parallelism ==
    /\ pc = "built"
    /\ \E n \in InfoParallels : scanner' = with_parallelism_value(scanner, n)
    /\ UNCHANGED <<listeners, numThreads, pc, chunks, completed, probe, ret,
                   prev, now, overflowChecks, wifi>>

GetScanInfo ==
    /\ pc = "built"
    /\ ret' = get_scan_info(scanner, overflowChecks)
    /\ pc' = IF ret'.kind = "Ok" THEN "info_returned" ELSE "panicked"
    /\ UNCHANGED <<scanner, listeners, numThreads, chunks, completed, probe,
                   prev, now, overflowChecks, wifi>>

InitInfo ==
    /\ \E t \in Targets, s \in InfoPorts, e \in InfoPorts : scanner = new(t, s, e)
    /\ listeners = {}
    /\ numThreads = 1
    /\ pc = "built"
    /\ chunks = <<>>
    /\ completed = <<>>
    /\ probe = NoProbe
    /\ ret = NoRet
    /\ prev = NoRet
    /\ now = 0
    /\ overflowChecks \in BOOLEAN
    /\ wifi = NoWifi

NextInfo ==
    \/ info_with_timeout
    \/ info_with_parallelism
    \/ GetScanInfo

SpecInfo == InitInfo /\ [][NextInfo]_vars

\* detect_service is private; it is called as the tests call it.
DetectService ==
    /\ pc = "built"
    /\ \E port \in 0 .. MaxPort :
         /\ probe' = [port |-> port, io |-> <<>>]
         /\ ret' = detect_service(port)
    /\ pc' = "catalog_returned"
    /\ UNCHANGED <<scanner, listeners, numThreads, chunks, completed, prev, now,
                   overflowChecks, wifi>>

InitCatalog ==
    /\ \E t \in Targets : scanner = new(t, 1, 100)
    /\ listeners = {}
    /\ numThreads = 1
    /\ pc = "built"
    /\ chunks = <<>>
    /\ completed = <<>>
    /\ probe = NoProbe
    /\ ret = NoRet
    /\ prev = NoRet
    /\ now = 0
    /\ overflowChecks = FALSE
    /\ wifi = NoWifi

NextCatalog ==
    \/ with_timeout
    \/ DetectService

SpecCatalog == InitCatalog /\ [][NextCatalog]_vars

\* Every method of the scanner, called on a scanner built by new and the
\* builder methods.
NextAll ==
    \/ Next
    \/ NextProbe
    \/ GetScanInfo

SpecAll == Init /\ [][NextAll]_vars

(***************************************************************************)
(* Text: a string is the sequence of its characters                        *)
(***************************************************************************)
UpperChars == <<"A", "B", "C", "D", "E", "F", "G", "H", "I", "J", "K", "L", "M",
                "N", "O", "P", "Q", "R", "S", "T", "U", "V", "W", "X", "Y", "Z">>
LowerChars == <<"a", "b", "c", "d", "e", "f", "g", "h", "i", "j", "k", "l", "m",
                "n", "o", "p", "q", "r", "s", "t", "u", "v", "w", "x", "y", "z">>

\* char::to_lowercase on the characters of the model (ASCII).
LowerChar(ch) ==
    IF \E i \in 1 .. Len(UpperChars) : UpperChars[i] = ch
    THEN LowerChars[CHOOSE i \in 1 .. Len(UpperChars) : UpperChars[i] = ch]
    ELSE ch

\* str::to_lowercase
to_lowercase(s) == [i \in 1 .. Len(s) |-> LowerChar(s[i])]

\* str::starts_with, str::contains and str::strip_prefix with a &str pattern
starts_with(s, pat) ==
    Len(s) >= Len(pat) /\ SubSeq(s, 1, Len(pat)) = pat

contains(s, pat) ==
    \E i \in 0 .. (Len(s) - Len(pat)) : SubSeq(s, i + 1, i + Len(pat)) = pat

strip_prefix(s, pat) ==
    IF starts_with(s, pat) THEN Some(SubSeq(s, Len(pat) + 1, Len(s))) ELSE None

RECURSIVE Flatten(_)
Flatten(words) ==
    IF words = <<>> THEN <<>> ELSE Head(words) \o Flatten(Tail(words))

(***************************************************************************)
(* wifi/scanner.rs: SecurityType                                           *)
(***************************************************************************)
SecurityType == {"Open", "WEP", "WPA", "WPA2", "WPA3", "WPA2WPA3", "Unknown"}

\* Variant: the test for "wpa2" comes before the test for the mixed mode.
from_str_wpa2_first(s) ==
    LET s_lower == to_lowercase(s) IN
    IF contains(s_lower, <<"w", "p", "a", "2">>) THEN "WPA2"
    ELSE IF contains(s_lower, <<"w", "p", "a", "3">>) /\ contains(s_lower, <<"w", "p", "a", "2">>) THEN "WPA2WPA3"
    ELSE IF contains(s_lower, <<"w", "p", "a", "3">>) THEN "WPA3"
    ELSE IF contains(s_lower, <<"w", "p", "a">>) THEN "WPA"
    ELSE IF contains(s_lower, <<"w", "e", "p">>) THEN "WEP"
    ELSE IF contains(s_lower, <<"o", "p", "e", "n">>) THEN "Open"
    ELSE "Unknown"

\* SecurityType::from_str
from_str(s) ==
    LET s_lower == to_lowercase(s) IN
    IF contains(s_lower, <<"w", "p", "a", "3">>) /\ contains(s_lower, <<"w", "p", "a", "2">>) THEN "WPA2WPA3"
    ELSE IF contains(s_lower, <<"w", "p", "a", "3">>) THEN "WPA3"
    ELSE IF contains(s_lower, <<"w", "p", "a", "2">>) THEN "WPA2"
    ELSE IF contains(s_lower, <<"w", "p", "a">>) THEN "WPA"
    ELSE IF contains(s_lower, <<"w", "e", "p">>) THEN "WEP"
    ELSE IF contains(s_lower, <<"o", "p", "e", "n">>) THEN "Open"
    ELSE "Unknown"

\* Variant: the mixed mode is ranked above WPA3.
security_level_mixed_top(self) ==
    CASE self = "Open"     -> 0
      [] self = "WEP"      -> 1
      [] self = "WPA"      -> 2
      [] self = "WPA2"     -> 3
      [] self = "WPA2WPA3" -> 5
      [] self = "WPA3"     -> 4
      [] self = "Unknown"  -> 0

\* SecurityType::security_level
security_level(self) ==
    CASE self = "Open"     -> 0
      [] self = "WEP"      -> 1
      [] self = "WPA"      -> 2
      [] self = "WPA2"     -> 3
      [] self = "WPA2WPA3" -> 4
      [] self = "WPA3"     -> 5
      [] self = "Unknown"  -> 0

\* Security descriptions: up to MaxWords of these words, written together.
SecurityWords ==
    {<<"W", "P", "A", "3">>, <<"w", "p", "a", "2">>, <<"W", "P", "A">>, <<"W", "E", "P">>, <<"O", "p", "e", "n">>,
     <<"W", "p", "a", "2">>, <<"-", "P", "S", "K">>, <<" ">>}

Descriptions ==
    {Flatten(ws) : ws \in UNION {[1 .. n -> SecurityWords] : n \in 0 .. MaxWords}}

\* SecurityType::from_str(s)
FromStr ==
    /\ pc = "described"
    /\ ret' = from_str(wifi.s)
    /\ pc' = "from_str_returned"
    /\ UNCHANGED <<scanner, listeners, numThreads, chunks, completed, probe,
                   prev, now, overflowChecks, wifi>>

\* security_type.security_level(), on the type from_str returned
SecurityLevel ==
    /\ pc = "from_str_returned"
    /\ wifi' = [wifi EXCEPT !.self = ret]
    /\ ret' = security_level(ret)
    /\ pc' = "level_returned"
    /\ UNCHANGED <<scanner, listeners, numThreads, chunks, completed, probe,
                   prev, now, overflowChecks>>

InitSecurity ==
    /\ \E t \in Targets : scanner = new(t, 1, 100)
    /\ listeners = {}
    /\ numThreads = 1
    /\ pc = "described"
    /\ chunks = <<>>
    /\ completed = <<>>
    /\ probe = NoProbe
    /\ ret = NoRet
    /\ prev = NoRet
    /\ now = 0
    /\ overflowChecks = FALSE
    /\ \E d \in Descriptions : wifi = [NoWifi EXCEPT !.s = d]

NextSecurity ==
    \/ FromStr
    \/ SecurityLevel

SpecSecurity == InitSecurity /\ [][NextSecurity]_vars

(***************************************************************************)
(* wifi/scanner.rs: parse_iw_scan_results                                  *)
(***************************************************************************)
IsWhitespace(ch) == ch \in {" ", "\t", "\r", "\n"}

RECURSIVE trim_start(_)
trim_start(s) ==
    IF s # <<>> /\ IsWhitespace(Head(s)) THEN trim_start(Tail(s)) ELSE s

RECURSIVE trim_end(_)
trim_end(s) ==
    IF s # <<>> /\ IsWhitespace(s[Len(s)])
    THEN trim_end(SubSeq(s, 1, Len(s) - 1)) ELSE s

\* str::trim
trim(s) == trim_end(trim_start(s))

\* Position of the first ch in s, Len(s) + 1 when there is none.
FirstIndex(s, ch) ==
    IF \E i \in 1 .. Len(s) : s[i] = ch
    THEN CHOOSE i \in 1 .. Len(s) : s[i] = ch /\ \A j \in 1 .. (i - 1) : s[j] # ch
    ELSE Len(s) + 1

\* str::lines: the pieces between line feeds, a carriage return before the
\* line feed dropped; a last piece that is empty is no line.
RECURSIVE lines(_)
lines(text) ==
    IF text = <<>> THEN <<>>
    ELSE LET i     == FirstIndex(text, "\n")
             piece == SubSeq(text, 1, i - 1)
             line  == IF piece # <<>> /\ piece[Len(piece)] = "\r" /\ i <= Len(text)
                      THEN SubSeq(piece, 1, Len(piece) - 1) ELSE piece
         IN  <<line>> \o lines(SubSeq(text, i + 1, Len(text)))

\* s.split('(').next(): the text before the first parenthesis.
split_next(s, ch) == Some(SubSeq(s, 1, FirstIndex(s, ch) - 1))

\* s.split_whitespace().next(): the first run of characters that are not
\* whitespace.
split_whitespace_next(s) ==
    LET t == trim_start(s)
        n == IF \E i \in 1 .. Len(t) : IsWhitespace(t[i])
             THEN (CHOOSE i \in 1 .. Len(t) :
                      IsWhitespace(t[i]) /\ \A j \in 1 .. (i - 1) : ~IsWhitespace(t[j])) - 1
             ELSE Len(t)
    IN  IF t = <<>> THEN None ELSE Some(SubSeq(t, 1, n))

IsDigit(ch) == \E d \in 1 .. 10 : DigitChars[d] = ch

RECURSIVE parse_digits(_)
parse_digits(s) ==
    IF s = <<>> THEN 0
    ELSE 10 * parse_digits(SubSeq(s, 1, Len(s) - 1))
         + (CHOOSE d \in 0 .. 9 : DigitChars[d + 1] = s[Len(s)])

\* str::parse::<u32>: an optional "+" and one or more digits.  The texts of
\* the model have at most MaxDigits digits, far from u32::MAX.
parse_u32(s) ==
    LET body == IF s # <<>> /\ Head(s) = "+" THEN Tail(s) ELSE s
    IN  IF body # <<>> /\ Len(body) <= MaxDigits /\ \A i \in 1 .. Len(body) : IsDigit(body[i])
        THEN Ok(parse_digits(body)) ELSE Err("ParseIntError")

\* str::parse::<i16>: an optional sign and one or more digits, in
\* -32768 ..= 32767.
parse_i16(s) ==
    LET signed == s # <<>> /\ Head(s) \in {"+", "-"}
        body   == IF signed THEN Tail(s) ELSE s
        value  == IF s # <<>> /\ Head(s) = "-" THEN 0 - parse_digits(body)
                  ELSE parse_digits(body)
    IN  IF /\ body # <<>> /\ Len(body) <= MaxDigits
           /\ \A i \in 1 .. Len(body) : IsDigit(body[i])
           /\ value >= -32768 /\ value <= 32767
        THEN Ok(value) ELSE Err("ParseIntError")

unwrap_or(r, default) == IF r.kind = "Ok" THEN r.value ELSE default

frequency_to_channel(frequency) ==
    CASE frequency = 2412 -> 1
      [] frequency = 2417 -> 2
      [] frequency = 2422 -> 3
      [] frequency = 2427 -> 4
      [] frequency = 2432 -> 5
      [] frequency = 2437 -> 6
      [] frequency = 2442 -> 7
      [] frequency = 2447 -> 8
      [] frequency = 2452 -> 9
      [] frequency = 2457 -> 10
      [] frequency = 2462 -> 11
      [] frequency = 2467 -> 12
      [] frequency = 2472 -> 13
      [] frequency = 2484 -> 14
      [] frequency = 5180 -> 36
      [] frequency = 5200 -> 40
      [] frequency = 5220 -> 44
      [] frequency = 5240 -> 48
      [] OTHER            -> 0

\* The Network a "BSS " line starts.
Network(bssid) ==
    [ssid            |-> <<>>,
     bssid           |-> bssid,
     channel         |-> 0,
     frequency       |-> 0,
     signal_strength |-> -100,
     security_type   |-> "Unknown",
     encryption      |-> None,
     authentication  |-> None,
     wps_enabled     |-> FALSE,
     wps_locked      |-> FALSE,
     hidden          |-> FALSE,
     clients         |-> <<>>]

\* The else branch of the loop body: a line that starts no network, applied
\* to the current network.
apply_attribute(network, line) ==
    IF starts_with(line, <<"S", "S", "I", "D", ":", " ">>)
    THEN LET ssid == strip_prefix(line, <<"S", "S", "I", "D", ":", " ">>)[1]
         IN  [network EXCEPT !.ssid = ssid, !.hidden = (ssid = <<>>)]
    ELSE IF starts_with(line, <<"f", "r", "e", "q", ":", " ">>)
    THEN LET freq == parse_u32(strip_prefix(line, <<"f", "r", "e", "q", ":", " ">>)[1])
         IN  IF freq.kind = "Ok"
             THEN [network EXCEPT !.frequency = freq.value,
                                  !.channel = frequency_to_channel(freq.value)]
             ELSE network
    ELSE IF starts_with(line, <<"s", "i", "g", "n", "a", "l", ":", " ">>)
    THEN LET signal == split_whitespace_next(strip_prefix(line, <<"s", "i", "g", "n", "a", "l", ":", " ">>)[1])
         IN  IF signal # None
             THEN [network EXCEPT
                      !.signal_strength = unwrap_or(parse_i16(signal[1]), -100)]
             ELSE network
    ELSE IF contains(line, <<"R", "S", "N", ":">>) \/ contains(line, <<"W", "P", "A", ":">>)
    THEN IF contains(line, <<"W", "P", "A", "3">>)
         THEN [network EXCEPT !.security_type = "WPA3"]
         ELSE IF contains(line, <<"W", "P", "A", "2">>) \/ contains(line, <<"R", "S", "N">>)
         THEN [network EXCEPT !.security_type = "WPA2"]
         ELSE [network EXCEPT !.security_type = "WPA"]
    ELSE IF contains(line, <<"W", "E", "P">>)
    THEN [network EXCEPT !.security_type = "WEP"]
    ELSE IF contains(line, <<"W", "P", "S", ":">>)
    THEN [network EXCEPT !.wps_enabled = TRUE]
    ELSE network

\* One iteration of `for line in output.lines()`, on the locals networks and
\* current_network.
parse_line(st, raw) ==
    LET line == trim(raw) IN
    IF starts_with(line, <<"B", "S", "S", " ">>)
    THEN LET bssid == split_next(strip_prefix(line, <<"B", "S", "S", " ">>)[1], "(")
         IN  [networks |-> IF st.current_network # None
                           THEN Append(st.networks, st.current_network[1])
                           ELSE st.networks,
              current_network |-> IF bssid # None
                                  THEN Some(Network(trim(bssid[1])))
                                  ELSE None]
    ELSE IF st.current_network # None
    THEN [networks |-> st.networks,
          current_network |-> Some(apply_attribute(st.current_network[1], line))]
    ELSE st

\* After the loop: the network being built is pushed.
parse_finish(st) ==
    IF st.current_network # None
    THEN Append(st.networks, st.current_network[1])
    ELSE st.networks

\* Lines of an `iw dev scan dump`: two BSS headers, attributes as iw indents
\* them, the SSID line of a hidden network, and the BSS Load element.
DumpLines ==
    {<<"B", "S", "S", " ", "a", "(", "o", "n", " ", "w", ")">>,
     <<"B", "S", "S", " ", "b">>,
     <<"\t", "S", "S", "I", "D", ":", " ", "h">>,
     <<"\t", "S", "S", "I", "D", ":", " ">>,
     <<"\t", "f", "r", "e", "q", ":", " ", "2", "4", "1", "2">>,
     <<"\t", "s", "i", "g", "n", "a", "l", ":", " ", "-", "4", "2", ".", "0", "0", " ", "d", "B", "m">>,
     <<"\t", "R", "S", "N", ":", " ", "1">>,
     <<"\t", "W", "E", "P">>,
     <<"\t", "W", "P", "S", ":", " ", "1">>,
     <<"\t", "B", "S", "S", " ", "L", "o", "a", "d", ":">>}

\* Each line ends with a line feed; the last one may lack it.
RECURSIVE JoinLines(_)
JoinLines(ls) ==
    IF ls = <<>> THEN <<>> ELSE Head(ls) \o <<"\n">> \o JoinLines(Tail(ls))

Dumps ==
    LET texts == {JoinLines(ls) :
                    ls \in UNION {[1 .. n -> DumpLines] : n \in 0 .. MaxLines}}
    IN  texts \cup {SubSeq(t, 1, Len(t) - 1) : t \in texts \ {<<>>}}

Locals == [networks |-> wifi.networks, current_network |-> wifi.current_network]

\* parse_iw_scan_results is entered: the locals are set up and the text is
\* cut into lines.
ParseCall ==
    /\ pc = "dumped"
    /\ wifi' = [wifi EXCEPT !.lines = lines(wifi.output), !.pos = 0,
                            !.networks = <<>>, !.current_network = None]
    /\ pc' = "parsing"
    /\ UNCHANGED <<scanner, listeners, numThreads, chunks, completed, probe,
                   ret, prev, now, overflowChecks>>

\* The loop body, for the next line.
ParseLine ==
    /\ pc = "parsing"
    /\ wifi.pos < Len(wifi.lines)
    /\ LET st == parse_line(Locals, wifi.lines[wifi.pos + 1])
       IN  wifi' = [wifi EXCEPT !.pos = wifi.pos + 1,
                                !.networks = st.networks,
                                !.current_network = st.current_network]
    /\ UNCHANGED <<scanner, listeners, numThreads, pc, chunks, completed, probe,
                   ret, prev, now, overflowChecks>>

\* End of input: the last network is pushed and the vector returned.
ParseReturn ==
    /\ pc = "parsing"
    /\ wifi.pos = Len(wifi.lines)
    /\ wifi' = [wifi EXCEPT !.networks = parse_finish(Locals),
                            !.current_network = None]
    /\ ret' = Ok(parse_finish(Locals))
    /\ pc' = "parsed"
    /\ UNCHANGED <<scanner, listeners, numThreads, chunks, completed, probe,
                   prev, now, overflowChecks>>

InitParser ==
    /\ \E t \in Targets : scanner = new(t, 1, 100)
    /\ listeners = {}
    /\ numThreads = 1
    /\ pc = "dumped"
    /\ chunks = <<>>
    /\ completed = <<>>
    /\ probe = NoProbe
    /\ ret = NoRet
    /\ prev = NoRet
    /\ now = 0
    /\ overflowChecks = FALSE
    /\ \E d \in Dumps : wifi = [NoWifi EXCEPT !.output = d]

NextParser ==
    \/ ParseCall
    \/ ParseLine
    \/ ParseReturn

SpecParser == InitParser /\ [][NextParser]_vars

(***************************************************************************)
(* Properties of scan()                                    (checked: Spec) *)
(***************************************************************************)
ValidRange == scanner.ports.start <= scanner.ports.end
RangeSize  == scanner.ports.end - scanner.ports.start + 1
ScanReturned == pc = "returned" /\ ret.kind = "Ok"

\* C1: for start <= end, whatever the order in which the concurrently running
\* chunks finish, scan() returns end - start + 1 results, the i-th of them for
\* port start + i - 1: each port of the range once, in ascending order.
C1_OnePerPortAscending ==
    (pc = "returned" /\ ValidRange) =>
        /\ ret.kind = "Ok"
        /\ Len(ret.value) = RangeSize
        /\ \A i \in 1 .. Len(ret.value) :
               ret.value[i].port = scanner.ports.start + i - 1

\* C1 witness: a scan returned whose second chunk finished before its first.
C1_Witness ==
    /\ pc = "returned" /\ ValidRange
    /\ Len(completed) >= 2
    /\ completed[1] > completed[2]
    /\ Len(ret.value) = RangeSize

\* C2 (the claim as stated): at no point of a scan are more than max_parallel
\* probes in flight.
C2_InFlightBounded ==
    pc = "scan" => Cardinality(InFlight) <= scanner.max_parallel

\* C3 (the claim as stated): scan() on start > end starts no probe and
\* fails with a ConfigError instead of returning a result.
C3_InvalidRangeFails ==
    (~ValidRange /\ pc \in {"scan", "returned"}) =>
        /\ InFlight = {}
        /\ \A c \in DOMAIN chunks : chunks[c].idx = 1
        /\ pc = "returned" => ret.kind = "Err"

\* A probe of chunk c has been started.
ProbeStarted(c) == chunks[c].probing \/ chunks[c].idx > 1

\* C4 (the claim as stated): the chunks are consecutive slices of at most
\* max_parallel ports of the ascending port list, and no probe of a chunk
\* starts before every earlier chunk has finished.
C4_BatchesSequential ==
    pc = "scan" =>
        /\ \A c \in DOMAIN chunks :
               /\ Len(chunks[c].ports) <= scanner.max_parallel
               /\ \A i \in 1 .. Len(chunks[c].ports) :
                      chunks[c].ports[i] =
                          scanner.ports.start + (c - 1) * scanner.max_parallel + i - 1
        /\ \A c, d \in DOMAIN chunks :
               (d < c /\ ProbeStarted(c)) => chunks[d].status = "done"

\* The ports of the range whose connect fails under the current configuration.
FaultyPorts ==
    {p \in scanner.ports.start .. scanner.ports.end :
        scanner.timeout_duration = 0 \/ p \notin listeners}

\* C9: a failing connect neither aborts the scan nor removes its port: while
\* the scan runs every probed port has its result in its chunk's vector, and
\* the scan returns Ok with every faulty port present as Closed or Filtered;
\* scan_tcp_port yields a result for every connect outcome.
C9_FaultsAbsorbed ==
    /\ pc = "scan" =>
          \A c \in DOMAIN chunks : Len(chunks[c].out) = chunks[c].idx - 1
    /\ pc = "returned" =>
          /\ ret.kind = "Ok"
          /\ \A p \in FaultyPorts :
                \E i \in 1 .. Len(ret.value) :
                    /\ ret.value[i].port = p
                    /\ ret.value[i].state \in {"Closed", "Filtered"}
    /\ \A p \in ScanPorts, o \in ConnectFailures \cup {"connected", "invalid_input"} :
          scan_tcp_port(p, o).kind = "Ok"

\* C9 witness: a scan returned with a faulty port and a port found open.
C9_Witness ==
    /\ ScanReturned
    /\ FaultyPorts # {}
    /\ \E i \in 1 .. Len(ret.value) : ret.value[i].state = "Open"
    /\ \E i \in 1 .. Len(ret.value) : ret.value[i].state = "Closed"

(***************************************************************************)
(* Properties of the per-port methods                 (checked: SpecProbe) *)
(***************************************************************************)
CallIs(op)   == Len(probe.io) >= 1 /\ probe.io[1].op = op
IoOps        == [i \in 1 .. Len(probe.io) |-> probe.io[i].op]
Did(op)      == \E i \in 1 .. Len(probe.io) : probe.io[i].op = op
DidWith(op, o) ==
    \E i \in 1 .. Len(probe.io) : probe.io[i].op = op /\ probe.io[i].out = o
LastOut      == probe.io[Len(probe.io)].out

\* C5: scan_tcp_port returns a result for the probed port with protocol TCP;
\* its state is Open exactly when the connect succeeded, then with the
\* catalog's name for the port (SSH for 22, none for 24); every failed
\* connect gives Closed without a service.
C5_TcpProbe ==
    (pc = "returned" /\ CallIs("connect_timeout")) =>
        /\ ret.kind = "Ok"
        /\ ret.value.port = probe.port
        /\ ret.value.protocol = "TCP"
        /\ (ret.value.state = "Open") <=> (LastOut = "connected")
        /\ LastOut = "connected" =>
              /\ ret.value.service = detect_service(probe.port)
              /\ probe.port = 22 => ret.value.service = Some("SSH")
              /\ probe.port = 24 => ret.value.service = None
        /\ LastOut # "connected" =>
              /\ ret.value.state = "Closed"
              /\ ret.value.service = None

\* C5 witness: port 22 was found open and named SSH.
C5_Witness ==
    /\ pc = "returned" /\ CallIs("connect_timeout")
    /\ LastOut = "connected"
    /\ ret.value = PortResult(22, "Open", Some("SSH"), "TCP")

\* C6: after a successful bind and send, the UDP probe returns a result with
\* protocol UDP whose state is Open for a reply, Closed for a receive error
\* and OpenFiltered for silence until the timeout; nothing else occurs.
C6_UdpClassification ==
    (pc = "returned" /\ DidWith("bind", "ok") /\ DidWith("send_to", "ok")) =>
        /\ Did("recv_from")
        /\ ret.kind = "Ok"
        /\ ret.value.port = probe.port
        /\ ret.value.protocol = "UDP"
        /\ LastOut \in {"reply", "recv_err", "elapsed"}
        /\ LastOut = "reply"    => ret.value.state = "Open"
        /\ LastOut = "recv_err" => ret.value.state = "Closed"
        /\ LastOut = "elapsed"  => ret.value.state = "OpenFiltered"

\* C6 witness: a probe that heard nothing returned OpenFiltered.
C6_Witness ==
    /\ pc = "returned" /\ DidWith("bind", "ok") /\ DidWith("send_to", "ok")
    /\ DidWith("recv_from", "elapsed")
    /\ ret.kind = "Ok" /\ ret.value.state = "OpenFiltered"

\* C7: the UDP probe binds, then sends, then waits; when the bind fails the
\* call has ended with an error, without a PortResult, and neither a send nor
\* a wait has taken place.
C7_BindFailureIsError ==
    CallIs("bind") =>
        /\ IoOps \in {<<"bind">>, <<"bind", "send_to">>,
                      <<"bind", "send_to", "recv_from">>}
        /\ DidWith("bind", "err") =>
              /\ pc = "returned"
              /\ ret.kind = "Err"
              /\ ~Did("send_to")
              /\ ~Did("recv_from")

\* C7 witness: a UDP probe whose bind failed has returned.
C7_Witness ==
    /\ pc = "returned" /\ CallIs("bind") /\ DidWith("bind", "err")
    /\ ret.kind = "Err"

\* C8 (the claim as stated): once the bind has succeeded the UDP probe ends
\* with a PortResult, never with an error, a failing send included.
C8_OnlyBindFails ==
    (pc = "returned" /\ DidWith("bind", "ok")) =>
        /\ ret.kind = "Ok"
        /\ ret.value.state \in PortState

\* C10 (the claim as stated): grab_banner returns a banner or no banner,
\* never an error, for every timeout and every outcome of its I/O.
C10_BannerNeverFails ==
    (pc = "returned" /\ CallIs("connect")) => ret.kind = "Ok"

\* C23 (the claim as stated): a result of the TCP or of the UDP probe names a
\* service only when its state is Open; a Closed or OpenFiltered result has
\* no service.
C23_ServiceOnlyWhenOpen ==
    (/\ pc = "returned"
     /\ CallIs("connect_timeout") \/ CallIs("bind")
     /\ ret.kind = "Ok") =>
        (ret.value.state # "Open" => ret.value.service = None)

\* UTF-8 encoding of code points below U+0800.
RECURSIVE Utf8Encode(_)
Utf8Encode(cps) ==
    IF cps = <<>> THEN <<>>
    ELSE LET c == Head(cps) IN
         (IF c < 128 THEN <<c>> ELSE <<192 + (c \div 64), 128 + (c % 64)>>)
         \o Utf8Encode(Tail(cps))

Reads == {i \in 1 .. Len(probe.io) : probe.io[i].op = "read"}
Connects == {i \in 1 .. Len(probe.io) : probe.io[i].op = "connect"}

\* The banner call connected and its read delivered at least one byte.
BannerDelivered ==
    /\ DidWith("connect", "connected")
    /\ Did("read")
    /\ LastOut.kind = "data"
    /\ Len(LastOut.bytes) >= 1

\* The decoding keeps what is valid UTF-8 and puts U+FFFD for the rest.
LossyOf(bytes, text) ==
    /\ (\A i \in 1 .. Len(text) : text[i] # 65533) => Utf8Encode(text) = bytes
    /\ Len(text) >= 1 /\ Len(text) <= Len(bytes)
    /\ bytes = <<65>>       => text = <<65>>
    /\ bytes = <<195, 169>> => text = <<233>>
    /\ bytes = <<195>>      => text = <<65533>>
    /\ bytes = <<169>>      => text = <<65533>>
    /\ bytes = <<169, 195>> => text = <<65533, 65533>>
    /\ bytes = <<195, 65>>  => text = <<65533, 65>>

\* C24: grab_banner makes one connect of its own and at most one read; it
\* returns a banner exactly when the connect succeeded and the read delivered
\* at least one byte, the banner being the lossy decoding of those bytes, at
\* most 1024 of them; a failed connect, an empty read and a failed read give
\* no banner.
C24_BannerSingleRead ==
    CallIs("connect") =>
        /\ Cardinality(Connects) = 1
        /\ Cardinality(Reads) <= 1
        /\ pc = "returned" =>
              /\ (ret.kind = "Ok" /\ ret.value # None) <=> BannerDelivered
              /\ BannerDelivered =>
                    /\ Len(LastOut.bytes) <= 1024
                    /\ Len(ret.value) = 1
                    /\ LossyOf(LastOut.bytes, ret.value[1])
              /\ (~DidWith("connect", "connected")
                  \/ (Did("read") /\ LastOut.kind \in {"eof", "err"})) =>
                    ret = Ok(None)

\* C24 witness: the two bytes of U+00E9 were read and returned as that
\* character.
C24_Witness ==
    /\ pc = "returned" /\ CallIs("connect")
    /\ BannerDelivered
    /\ LastOut.bytes = <<195, 169>>
    /\ ret = Ok(Some(<<233>>))

(***************************************************************************)
(* Further properties of scan()                                            *)
(***************************************************************************)
SameResult(a, b) ==
    a.port = b.port /\ a.state = b.state /\ a.service = b.service

\* C13 (checked: SpecTwice): two scans of the same scanner against the same
\* target return sequences that agree in port, state and service at every
\* position, whatever the interleaving of the threads in either scan.
C13_ScanDeterministic ==
    (pc = "returned" /\ prev.kind = "Ok") =>
        /\ ret.kind = "Ok"
        /\ Len(ret.value) = Len(prev.value)
        /\ \A i \in 1 .. Len(ret.value) : SameResult(ret.value[i], prev.value[i])

\* C13 witness: a second scan returned, of an open and a closed port, whose
\* chunks finished out of order.
C13_Witness ==
    /\ pc = "returned" /\ prev.kind = "Ok"
    /\ Len(completed) >= 2 /\ completed[1] > completed[2]
    /\ \E i \in 1 .. Len(ret.value) : ret.value[i].state = "Open"
    /\ \E i \in 1 .. Len(ret.value) : ret.value[i].state = "Closed"

\* The ports on which a connect was begun, chunk after chunk.
TriedPorts == Concat([c \in DOMAIN chunks |-> chunks[c].tried],
                     [c \in DOMAIN chunks |-> c])
Attempts(p) == Cardinality({i \in 1 .. Len(TriedPorts) : TriedPorts[i] = p})

AllProbed ==
    /\ \A c \in DOMAIN chunks : chunks[c].status = "done"
    /\ \A p \in scanner.ports.start .. scanner.ports.end : Attempts(p) >= 1

\* C14 (checked: SpecFair): a scan that has been entered eventually returns,
\* and when it has returned every chunk is finished and every port of the
\* range has been probed.
C14_ScanCompletes ==
    /\ []((pc = "returned" /\ ValidRange) => AllProbed)
    /\ (pc = "scan") ~> (pc = "returned")

\* C14 witness: a scan over several chunks has returned.
C14_Witness ==
    /\ pc = "returned" /\ ValidRange
    /\ Len(chunks) >= 2
    /\ AllProbed

\* C15 (the claim as stated; checked: SpecTimed): with every probe taking at
\* most timeout_duration, the scan has returned after at most
\* ceil(total_ports / max_parallel) timeouts of wall clock.
C15_WithinWorstCase ==
    (pc \in {"scan", "returned"} /\ ValidRange) =>
        now <= (RangeSize + scanner.max_parallel - 1) \div scanner.max_parallel

\* C16 (the claim as stated): a scanner built through new, with_timeout and
\* with_parallelism has max_parallel >= 1, and scan() never meets a zero.
C16_ParallelismPositive ==
    /\ scanner.max_parallel >= 1
    /\ pc # "panicked"

\* C19: every result of a scan, gathered or returned, and every result of
\* scan_tcp_port has state Open or Closed, never Filtered or OpenFiltered.
C19_TcpOpenOrClosed ==
    /\ \A c \in DOMAIN chunks : \A i \in 1 .. Len(chunks[c].out) :
           chunks[c].out[i].state \in {"Open", "Closed"}
    /\ (pc = "returned" /\ ret.kind = "Ok") =>
           \A i \in 1 .. Len(ret.value) : ret.value[i].state \in {"Open", "Closed"}
    /\ \A p \in ScanPorts, o \in ConnectFailures \cup {"connected", "invalid_input"} :
           scan_tcp_port(p, o).value.state \in {"Open", "Closed"}

\* C19 witness: a scan with a positive timeout returned a port without
\* listener as Closed.
C19_Witness ==
    /\ ScanReturned
    /\ scanner.timeout_duration > 0
    /\ \E i \in 1 .. Len(ret.value) :
           ret.value[i].port \notin listeners /\ ret.value[i].state = "Closed"

\* C20: no port is probed twice and none outside the range, and when the
\* scan of a valid range has returned every port of it was probed once.
C20_OneAttemptPerPort ==
    /\ \A p \in ScanPorts : Attempts(p) <= 1
    /\ \A i \in 1 .. Len(TriedPorts) :
           TriedPorts[i] \in scanner.ports.start .. scanner.ports.end
    /\ (pc = "returned" /\ ValidRange) =>
           \A p \in scanner.ports.start .. scanner.ports.end : Attempts(p) = 1

\* C20 witness: a scan over several chunks returned with a failed connect.
C20_Witness ==
    /\ ScanReturned /\ ValidRange
    /\ Len(chunks) >= 2
    /\ FaultyPorts # {}
    /\ \A p \in scanner.ports.start .. scanner.ports.end : Attempts(p) = 1

(***************************************************************************)
(* Properties of the estimator, the builder and the catalog                *)
(***************************************************************************)
\* Reading a decimal number back from its digits.
DigitValue(ch) == CHOOSE d \in 0 .. 9 : DigitChars[d + 1] = ch

RECURSIVE ParseDecimal(_)
ParseDecimal(str) ==
    IF Len(str) = 0 THEN 0
    ELSE 10 * ParseDecimal(SubSeq(str, 1, Len(str) - 1)) + DigitValue(str[Len(str)])

DashAt(str) == CHOOSE i \in 1 .. Len(str) : str[i] = "-"

ShowsRange(str, start, end) ==
    /\ \E i \in 1 .. Len(str) : str[i] = "-"
    /\ DashAt(str) > 1 /\ DashAt(str) < Len(str)
    /\ ParseDecimal(SubSeq(str, 1, DashAt(str) - 1)) = start
    /\ ParseDecimal(SubSeq(str, DashAt(str) + 1, Len(str))) = end

ValidConfig(self) ==
    /\ self.ports.start <= self.ports.end
    /\ self.max_parallel >= 1

InfoCalled == pc \in {"info_returned", "panicked"}

\* C11 (the claim as stated; checked: SpecInfo): for every range with
\* 0 <= start <= end <= 65535 get_scan_info reports
\* total_ports = end - start + 1 and the range as "start-end"; for 1..1000
\* these are 1000 and "1-1000".
C11_TotalPortsExact ==
    (InfoCalled /\ ValidConfig(scanner)) =>
        /\ ret.kind = "Ok"
        /\ ret.value.total_ports = scanner.ports.end - scanner.ports.start + 1
        /\ ShowsRange(ret.value.port_range, scanner.ports.start, scanner.ports.end)
        /\ (scanner.ports.start = 1 /\ scanner.ports.end = 1000) =>
              /\ ret.value.total_ports = 1000
              /\ ret.value.port_range = <<"1", "-", "1", "0", "0", "0">>

PortCount(self) == self.ports.end - self.ports.start + 1

Estimate(self) == get_scan_info(self, overflowChecks)

\* The valid configurations that differ from self in one parameter only.
OtherRanges(self) ==
    {[self EXCEPT !.ports = [start |-> s, end |-> e]] :
        s \in InfoPorts, e \in InfoPorts}
OtherTimeouts(self) ==
    {with_timeout_value(self, d) : d \in InfoDurations \cup {DefaultTimeoutMs}}
OtherParallels(self) ==
    {with_parallelism_value(self, n) : n \in InfoParallels \cup {DefaultMaxParallel}}

\* C12 (the claim as stated; checked: SpecInfo): over the valid
\* configurations the estimated duration exists and does not decrease when
\* the range grows or the timeout grows, and does not increase when
\* max_parallel grows, the other two parameters being the same.
C12_EstimateMonotone ==
    (InfoCalled /\ ValidConfig(scanner)) =>
        /\ ret.kind = "Ok"
        /\ \A o \in OtherRanges(scanner) :
              (ValidConfig(o) /\ PortCount(o) >= PortCount(scanner)) =>
                  /\ Estimate(o).kind = "Ok"
                  /\ Estimate(o).value.estimated_duration_seconds
                        >= ret.value.estimated_duration_seconds
        /\ \A o \in OtherTimeouts(scanner) :
              (o.timeout_duration >= scanner.timeout_duration) =>
                  /\ Estimate(o).kind = "Ok"
                  /\ Estimate(o).value.estimated_duration_seconds
                        >= ret.value.estimated_duration_seconds
        /\ \A o \in OtherParallels(scanner) :
              (o.max_parallel >= scanner.max_parallel) =>
                  /\ Estimate(o).kind = "Ok"
                  /\ Estimate(o).value.estimated_duration_seconds
                        <= ret.value.estimated_duration_seconds

\* What new returns, written out field by field.
NewHoldsArguments ==
    \A t \in Targets \cup {"10.0.0.7"}, s \in ScanPorts, e \in ScanPorts :
        new(t, s, e) = [target |-> t,
                        ports |-> [start |-> s, end |-> e],
                        timeout_duration |-> 1000,
                        max_parallel |-> 100]

\* One step: target and ports never change; with_timeout leaves
\* max_parallel, with_parallelism leaves the timeout; nothing else, a call
\* of scan, of a probe or of the estimator included, changes the scanner.
FrameStep ==
    /\ scanner'.target = scanner.target
    /\ scanner'.ports = scanner.ports
    /\ with_timeout => scanner'.max_parallel = scanner.max_parallel
    /\ with_parallelism => scanner'.timeout_duration = scanner.timeout_duration
    /\ (pc # "built" \/ pc' # "built") => scanner' = scanner

\* C17 (checked: SpecAll): a new scanner holds the given target and bounds
\* with timeout 1000 ms and max_parallel 100; with_timeout changes only the
\* timeout, with_parallelism only max_parallel; scan, the probes and the
\* estimator leave the scanner as it is.
C17_ConfigurationFrame ==
    /\ NewHoldsArguments
    /\ scanner.timeout_duration = 1000 /\ scanner.max_parallel = 100
    /\ [][FrameStep]_vars

\* C17 witness: a scanner with both settings changed has been scanned.
C17_Witness ==
    /\ pc = "returned" /\ probe = NoProbe
    /\ scanner.timeout_duration = 0
    /\ scanner.max_parallel = 1
    /\ Len(ret.value) >= 2

\* The table of the catalog, port by port.
WellKnown ==
    {<<20, "FTP-DATA">>, <<21, "FTP">>, <<22, "SSH">>, <<23, "Telnet">>,
     <<25, "SMTP">>, <<53, "DNS">>, <<80, "HTTP">>, <<110, "POP3">>,
     <<143, "IMAP">>, <<443, "HTTPS">>, <<445, "SMB">>, <<3306, "MySQL">>,
     <<3389, "RDP">>, <<5432, "PostgreSQL">>, <<5900, "VNC">>,
     <<6379, "Redis">>, <<8080, "HTTP-Proxy">>, <<8443, "HTTPS-Alt">>,
     <<27017, "MongoDB">>}

\* C18 (checked: SpecCatalog): for every port of 0..65535 detect_service
\* returns the table's name when the port is in the table and nothing
\* otherwise, whatever the scanner's configuration.
C18_CatalogLookup ==
    pc = "catalog_returned" =>
        /\ \A e \in WellKnown : probe.port = e[1] => ret = Some(e[2])
        /\ (\A e \in WellKnown : probe.port # e[1]) => ret = None
        /\ Len(ret) <= 1

\* C18 witness: port 8443 was looked up under a changed timeout.
C18_Witness ==
    /\ pc = "catalog_returned"
    /\ probe.port = 8443
    /\ scanner.timeout_duration = 0
    /\ ret = Some("HTTPS-Alt")

(***************************************************************************)
(* Properties of SecurityType                      (checked: SpecSecurity) *)
(***************************************************************************)
Levels ==
    {<<"Open", 0>>, <<"WEP", 1>>, <<"WPA", 2>>, <<"WPA2", 3>>,
     <<"WPA2WPA3", 4>>, <<"WPA3", 5>>, <<"Unknown", 0>>}

Ladder == <<"Open", "WEP", "WPA", "WPA2", "WPA2WPA3", "WPA3">>

\* C21: security_level gives Open 0, WEP 1, WPA 2, WPA2 3, WPA2WPA3 4, WPA3 5
\* and Unknown 0: a value of 0..5 that grows strictly along
\* Open < WEP < WPA < WPA2 < WPA2WPA3 < WPA3.
C21_SecurityLevels ==
    /\ pc = "level_returned" =>
          /\ ret \in 0 .. 5
          /\ \A e \in Levels : wifi.self = e[1] => ret = e[2]
          /\ \A i \in 1 .. Len(Ladder) : wifi.self = Ladder[i] => ret = i - 1
    /\ \A i \in 1 .. (Len(Ladder) - 1) :
          security_level(Ladder[i]) < security_level(Ladder[i + 1])

\* C21 witness: the level of the mixed mode was asked for and is 4.
C21_Witness ==
    /\ pc = "level_returned"
    /\ wifi.self = "WPA2WPA3"
    /\ ret = 4

\* Two characters that differ at most in case.
SameLetter(a, b) ==
    \/ a = b
    \/ \E i \in 1 .. Len(UpperChars) :
          {a, b} = {UpperChars[i], LowerChars[i]}

\* The description holds the word somewhere, in whatever case.
Mentions(s, word) ==
    \E i \in 0 .. (Len(s) - Len(word)) :
        \A j \in 1 .. Len(word) : SameLetter(s[i + j], word[j])

\* C22: from_str decides by the first of these that applies, letter case
\* ignored: "wpa3" and "wpa2" both present, WPA2WPA3; "wpa3", WPA3; "wpa2",
\* WPA2; "wpa", WPA; "wep", WEP; "open", Open; none of them, Unknown.  The
\* plain names WPA3, WPA2, WPA, WEP and Open give their own variant.
C22_FromStrPrecedence ==
    pc = "from_str_returned" =>
        /\ ret \in SecurityType
        /\ (ret = "WPA2WPA3") <=>
              (Mentions(wifi.s, <<"w", "p", "a", "3">>) /\ Mentions(wifi.s, <<"w", "p", "a", "2">>))
        /\ (ret = "WPA3") <=>
              (Mentions(wifi.s, <<"w", "p", "a", "3">>) /\ ~Mentions(wifi.s, <<"w", "p", "a", "2">>))
        /\ (ret = "WPA2") <=>
              (Mentions(wifi.s, <<"w", "p", "a", "2">>) /\ ~Mentions(wifi.s, <<"w", "p", "a", "3">>))
        /\ (ret = "WPA") <=>
              (/\ Mentions(wifi.s, <<"w", "p", "a">>)
               /\ ~Mentions(wifi.s, <<"w", "p", "a", "2">>)
               /\ ~Mentions(wifi.s, <<"w", "p", "a", "3">>))
        /\ (ret = "WEP") <=>
              (Mentions(wifi.s, <<"w", "e", "p">>) /\ ~Mentions(wifi.s, <<"w", "p", "a">>))
        /\ (ret = "Open") <=>
              (/\ Mentions(wifi.s, <<"o", "p", "e", "n">>)
               /\ ~Mentions(wifi.s, <<"w", "e", "p">>)
               /\ ~Mentions(wifi.s, <<"w", "p", "a">>))
        /\ wifi.s = <<"W", "P", "A", "3">> => ret = "WPA3"
        /\ wifi.s = <<"w", "p", "a", "2">> => ret = "WPA2"
        /\ wifi.s = <<"W", "P", "A">>  => ret = "WPA"
        /\ wifi.s = <<"W", "E", "P">>  => ret = "WEP"
        /\ wifi.s = <<"O", "p", "e", "n">> => ret = "Open"

\* C22 witness: "WPA3 Wpa2" was classified as the mixed mode.
C22_Witness ==
    /\ pc = "from_str_returned"
    /\ wifi.s = <<"W", "P", "A", "3", " ", "W", "p", "a", "2">>
    /\ ret = "WPA2WPA3"

(***************************************************************************)
(* Properties of parse_iw_scan_results               (checked: SpecParser) *)
(***************************************************************************)
\* The lines of the dump that start a network, and the k-th of them.
IsBssLine(l) == starts_with(l, <<"B", "S", "S", " ">>)
BssLines == {i \in 1 .. Len(wifi.lines) : IsBssLine(wifi.lines[i])}
NthBss(k) ==
    CHOOSE i \in BssLines : Cardinality({j \in BssLines : j <= i}) = k

\* The attribute lines of the k-th network: those after its BSS line and
\* before the next one.
AttributeLines(k) ==
    {i \in 1 .. Len(wifi.lines) :
        /\ i > NthBss(k)
        /\ \A j \in BssLines : j > NthBss(k) => i < j}

Blank(s) == \A i \in 1 .. Len(s) : IsWhitespace(s[i])

\* An SSID line: indentation, "SSID:", the name.  It is empty when no name
\* follows.
IsSsidLine(l) ==
    \E i \in 1 .. Len(l) :
        /\ Blank(SubSeq(l, 1, i - 1))
        /\ starts_with(SubSeq(l, i, Len(l)), <<"S", "S", "I", "D", ":">>)
EmptySsidLine(l) ==
    \E i \in 1 .. Len(l) :
        /\ Blank(SubSeq(l, 1, i - 1))
        /\ starts_with(SubSeq(l, i, Len(l)), <<"S", "S", "I", "D", ":">>)
        /\ Blank(SubSeq(l, i + 5, Len(l)))

SsidLines(k) == {i \in AttributeLines(k) : IsSsidLine(wifi.lines[i])}
LastSsidLine(k) == CHOOSE i \in SsidLines(k) : \A j \in SsidLines(k) : j <= i

\* The whole loop, on a sequence of lines.
RECURSIVE ParseAll(_, _)
ParseAll(st, ls) ==
    IF ls = <<>> THEN parse_finish(st)
    ELSE ParseAll(parse_line(st, Head(ls)), Tail(ls))

\* What the k-th BSS line and its attribute lines give, taken alone.
Alone(k) ==
    LET last == IF AttributeLines(k) = {} THEN NthBss(k)
                ELSE CHOOSE i \in AttributeLines(k) :
                        \A j \in AttributeLines(k) : j <= i
    IN  ParseAll([networks |-> <<>>, current_network |-> None],
                 SubSeq(wifi.lines, NthBss(k), last))

\* C25 (the claim as stated): the parser returns one Network per line
\* starting with "BSS ", in input order; each is what its own BSS line and
\* attribute lines give, lines before the first BSS line changing nothing;
\* during the loop the networks started so far are those pushed plus the
\* current one; a network is hidden exactly when its last SSID line is empty.
C25_OneNetworkPerBssLine ==
    /\ pc = "parsing" =>
          Len(wifi.networks) + Len(wifi.current_network)
              = Cardinality({i \in BssLines : i <= wifi.pos})
    /\ pc = "parsed" =>
          /\ ret.kind = "Ok"
          /\ Len(ret.value) = Cardinality(BssLines)
          /\ \A k \in 1 .. Len(ret.value) :
                /\ contains(wifi.lines[NthBss(k)], ret.value[k].bssid)
                /\ Alone(k) = <<ret.value[k]>>
                /\ ret.value[k].hidden <=>
                      /\ SsidLines(k) # {}
                      /\ EmptySsidLine(wifi.lines[LastSsidLine(k)])

====
